---- MODULE Spec2Model ----
(***************************************************************************)
(* A model of the 6502-style CPU core of src/src/cpu.rs: the CPU struct,   *)
(* its memory accessors, load / reset / run / load_and_run, the flag unit, *)
(* the three instruction handlers and the addressing-mode resolver.        *)
(*                                                                         *)
(* A Rust panic (an out-of-range index, todo!(), panic!()) is modelled as  *)
(* a result whose ok field is FALSE; the process then is "Faulted".        *)
(***************************************************************************)
EXTENDS Integers, Sequences, FiniteSets, TLC

(***************************************************************************)
(* Bounds of the model.                                                    *)
(***************************************************************************)
\* caller accesses (field assignments, memory reads and writes) per behaviour
MaxWrites == 1
\* calls of run, load_and_run and check_register_z_and_n per behaviour
MaxRuns == 1
\* calls of load and load_and_run per behaviour
MaxLoads == 1

(***************************************************************************)
(* Program constants.                                                      *)
(***************************************************************************)
\* memory: [u8; 0xFFFF]
MemLen == 65535
\* load base, 0x8000
Base == 32768
\* reset vector, 0xFFFC
ResetVector == 65532
\* u16 / u8 ranges
U16 == 65536
U8 == 256

Byte == 0 .. (U8 - 1)

(***************************************************************************)
(* 8-bit bitwise operators (Rust's | and & on u8).                         *)
(***************************************************************************)
Bit(v, k) == (v \div (2 ^ k)) % 2

RECURSIVE BitOr(_, _, _)
BitOr(a, b, k) ==
  IF k < 0 THEN 0
  ELSE (IF Bit(a, k) = 1 \/ Bit(b, k) = 1 THEN 2 ^ k ELSE 0) + BitOr(a, b, k - 1)

RECURSIVE BitAnd(_, _, _)
BitAnd(a, b, k) ==
  IF k < 0 THEN 0
  ELSE (IF Bit(a, k) = 1 /\ Bit(b, k) = 1 THEN 2 ^ k ELSE 0) + BitAnd(a, b, k - 1)

Or8(a, b) == BitOr(a, b, 7)
And8(a, b) == BitAnd(a, b, 7)

(***************************************************************************)
(* Results of fallible operations.                                         *)
(***************************************************************************)
Ok(v) == [ok |-> TRUE, val |-> v]
Panic(v) == [ok |-> FALSE, val |-> v]

\* u16 addition: overflow panics when the build checks overflow (debug) and
\* wraps otherwise (release)
Add16(a, b, oc) ==
  IF a + b < U16 THEN Ok(a + b)
  ELSE IF oc THEN Panic((a + b) % U16)
  ELSE Ok((a + b) % U16)

\* u8 addition without the wrap
WrapAdd8_NoWrap(a, b) == a + b

\* u8 wrapping_add
WrapAdd8(a, b) == (a + b) % U8

\* u16 addition without the wrap
WrapAdd16_NoWrap(a, b) == a + b

\* u16 wrapping_add
WrapAdd16(a, b) == (a + b) % U16

(***************************************************************************)
(* The memory array.  It is zero-initialised and MemLen cells long; the    *)
(* model keeps the cells that are not zero.                                *)
(***************************************************************************)
ZeroMem == [a \in {} |-> 0]

Cell(m, a) == IF a \in DOMAIN m THEN m[a] ELSE 0

Put(m, a, v) ==
  IF v = 0
  THEN [x \in (DOMAIN m) \ {a} |-> m[x]]
  ELSE [x \in (DOMAIN m) \cup {a} |-> IF x = a THEN v ELSE m[x]]

\* CPU::new
new ==
  [register_a |-> 0, register_x |-> 0, register_y |-> 0, status |-> 0,
   memory |-> ZeroMem, program_counter |-> 0, stack_pointer |-> 0]

\* self.memory[addr as usize]: the index is checked against the array length
mem_read(c, addr) ==
  IF addr < MemLen THEN Ok(Cell(c.memory, addr)) ELSE Panic(0)

mem_write(c, addr, data) ==
  IF addr < MemLen
  THEN Ok([c EXCEPT !.memory = Put(c.memory, addr, data)])
  ELSE Panic(c)

mem_read_u16(c, pos, oc) ==
  LET lo == mem_read(c, pos) IN
  IF ~lo.ok THEN Panic(0)
  ELSE LET p1 == Add16(pos, 1, oc) IN
       IF ~p1.ok THEN Panic(0)
       ELSE LET hi == mem_read(c, p1.val) IN
            IF ~hi.ok THEN Panic(0)
            ELSE Ok(hi.val * 256 + lo.val)

\* mem_write_u16 storing the high byte first (big-endian)
mem_write_u16_BigEndian(c, pos, data, oc) ==
  LET hi == (data \div 256) % U8
      lo == data % 256
      w1 == mem_write(c, pos, hi)
  IN IF ~w1.ok THEN w1
     ELSE LET p1 == Add16(pos, 1, oc) IN
          IF ~p1.ok THEN Panic(w1.val)
          ELSE mem_write(w1.val, p1.val, lo)

mem_write_u16(c, pos, data, oc) ==
  LET hi == (data \div 256) % U8
      lo == data % 256
      w1 == mem_write(c, pos, lo)
  IN IF ~w1.ok THEN w1
     ELSE LET p1 == Add16(pos, 1, oc) IN
          IF ~p1.ok THEN Panic(w1.val)
          ELSE mem_write(w1.val, p1.val, hi)

(***************************************************************************)
(* A program (the Vec<u8> handed to load): the bytes of head followed by   *)
(* zero bytes up to len.                                                   *)
(***************************************************************************)
ProgByte(p, i) == IF i < Len(p.head) THEN p.head[i + 1] ELSE 0

\* the copy landing one cell below base
CopyFromSlice_OneBelow(m, base, p) ==
  LET keep == {a \in DOMAIN m : a < base - 1 \/ a >= base - 1 + p.len}
      set == {base - 1 + (j - 1) : j \in {k \in 1 .. Len(p.head) : p.head[k] # 0}}
  IN [a \in keep \cup set |-> IF a \in set THEN p.head[(a - base) + 2] ELSE m[a]]

\* self.memory[base .. base + p.len].copy_from_slice(&program[..])
CopyFromSlice(m, base, p) ==
  LET keep == {a \in DOMAIN m : a < base \/ a >= base + p.len}
      set == {base + (j - 1) : j \in {k \in 1 .. Len(p.head) : p.head[k] # 0}}
  IN [a \in keep \cup set |-> IF a \in set THEN p.head[(a - base) + 1] ELSE m[a]]

\* CPU::load: the slice's end is checked against the array length before
\* anything is copied
load(c, p, oc) ==
  IF Base + p.len > MemLen THEN Panic(c)
  ELSE mem_write_u16([c EXCEPT !.memory = CopyFromSlice(c.memory, Base, p)],
                     ResetVector, Base, oc)

\* reset zeroing register_y and stack_pointer as well
reset_AllRegisters(c, oc) ==
  LET c1 == [c EXCEPT !.register_a = 0, !.register_x = 0, !.register_y = 0,
                      !.status = 0, !.stack_pointer = 0]
      v == mem_read_u16(c1, ResetVector, oc)
  IN IF v.ok THEN Ok([c1 EXCEPT !.program_counter = v.val]) ELSE Panic(c1)

\* reset leaving register_x as it was
reset_KeepsX(c, oc) ==
  LET c1 == [c EXCEPT !.register_a = 0, !.status = 0]
      v == mem_read_u16(c1, ResetVector, oc)
  IN IF v.ok THEN Ok([c1 EXCEPT !.program_counter = v.val]) ELSE Panic(c1)

\* CPU::reset
reset(c, oc) ==
  LET c1 == [c EXCEPT !.register_a = 0, !.register_x = 0, !.status = 0]
      v == mem_read_u16(c1, ResetVector, oc)
  IN IF v.ok THEN Ok([c1 EXCEPT !.program_counter = v.val]) ELSE Panic(c1)

(***************************************************************************)
(* Flag unit.                                                              *)
(***************************************************************************)
\* the Zero half setting the bit and never clearing it
ZeroFlag_NeverCleared(status, register) ==
  IF register = 0 THEN Or8(status, 2) ELSE status

\* status after the Zero half of check_register_z_and_n
ZeroFlag(status, register) ==
  IF register = 0 THEN Or8(status, 2) ELSE And8(status, 253)

\* the Negative half setting the bit and never clearing it
NegativeFlag_NeverCleared(status, register) ==
  IF And8(register, 128) # 0 THEN Or8(status, 128) ELSE status

\* status after the Negative half of check_register_z_and_n
NegativeFlag(status, register) ==
  IF And8(register, 128) # 0 THEN Or8(status, 128) ELSE And8(status, 127)

check_register_z_and_n(c, register) ==
  [c EXCEPT !.status = NegativeFlag(ZeroFlag(c.status, register), register)]

(***************************************************************************)
(* Addressing-mode resolver.                                               *)
(***************************************************************************)
AddressingMode ==
  {"Immediate", "ZeroPage", "ZeroPage_X", "ZeroPage_Y", "Absolute",
   "Absolute_X", "Absolute_Y", "Indirect_X", "Indirect_Y", "NoneAddressing"}

\* (hi as u16) << 8 | (lo as u16), after both reads
Deref(c, loAddr, hiAddr) ==
  LET lo == mem_read(c, loAddr) IN
  IF ~lo.ok THEN Panic(0)
  ELSE LET hi == mem_read(c, hiAddr) IN
       IF ~hi.ok THEN Panic(0) ELSE Ok(hi.val * 256 + lo.val)

get_operand_address(c, mode, oc) ==
  LET pc == c.program_counter
      operand == mem_read(c, pc)
      operand16 == mem_read_u16(c, pc, oc)
  IN CASE mode = "Immediate" -> Ok(pc)
       [] mode = "ZeroPage" -> operand
       [] mode = "Absolute" -> operand16
       [] mode = "ZeroPage_X" ->
            IF operand.ok THEN Ok(WrapAdd8(operand.val, c.register_x)) ELSE Panic(0)
       [] mode = "ZeroPage_Y" ->
            IF operand.ok THEN Ok(WrapAdd8(operand.val, c.register_y)) ELSE Panic(0)
       [] mode = "Absolute_X" ->
            IF operand16.ok THEN Ok(WrapAdd16(operand16.val, c.register_x)) ELSE Panic(0)
       [] mode = "Absolute_Y" ->
            IF operand16.ok THEN Ok(WrapAdd16(operand16.val, c.register_y)) ELSE Panic(0)
       [] mode = "Indirect_X" ->
            IF ~operand.ok THEN Panic(0)
            ELSE LET ptr == WrapAdd8(operand.val, c.register_x)
                 IN Deref(c, ptr, WrapAdd8(ptr, 1))
       [] mode = "Indirect_Y" ->
            IF ~operand.ok THEN Panic(0)
            ELSE LET base == Deref(c, operand.val, WrapAdd8(operand.val, 1))
                 IN IF base.ok THEN Ok(WrapAdd16(base.val, c.register_y)) ELSE Panic(0)
       [] OTHER -> Panic(0)

(***************************************************************************)
(* Instruction handlers.                                                   *)
(***************************************************************************)
lda(c, mode, oc) ==
  LET addr == get_operand_address(c, mode, oc) IN
  IF ~addr.ok THEN Panic(c)
  ELSE LET value == mem_read(c, addr.val) IN
       IF ~value.ok THEN Panic(c)
       ELSE Ok(check_register_z_and_n([c EXCEPT !.register_a = value.val], value.val))

\* tax updating the flags before the transfer, from the old register_x
tax_FlagsFirst(c) ==
  [check_register_z_and_n(c, c.register_x) EXCEPT !.register_x = c.register_a]

tax(c) ==
  check_register_z_and_n([c EXCEPT !.register_x = c.register_a], c.register_a)

\* inx saturating at 0xFF instead of wrapping
inx_Saturating(c) ==
  LET x == IF c.register_x = 255 THEN 255 ELSE c.register_x + 1
  IN check_register_z_and_n([c EXCEPT !.register_x = x], x)

inx(c) ==
  LET x == WrapAdd8(c.register_x, 1)
  IN check_register_z_and_n([c EXCEPT !.register_x = x], x)

(***************************************************************************)
(* One iteration of the loop of CPU::run.                                  *)
(***************************************************************************)
Outcome(o, c) == [outcome |-> o, cpu |-> c]

\* the loop without its program_counter increments
AdvancePC_Never(c, n, oc) == Outcome("Running", c)

\* self.program_counter += n
AdvancePC(c, n, oc) ==
  LET pc == Add16(c.program_counter, n, oc)
  IN IF pc.ok THEN Outcome("Running", [c EXCEPT !.program_counter = pc.val])
     ELSE Outcome("Faulted", c)

\* a load-accumulator arm that does not skip its operand bytes
LdaArm_NoSkip(c, mode, n, oc) ==
  LET r == lda(c, mode, oc)
  IN IF r.ok THEN Outcome("Running", r.val) ELSE Outcome("Faulted", r.val)

\* a load-accumulator arm of the match: the handler, then the operand skip
LdaArm(c, mode, n, oc) ==
  LET r == lda(c, mode, oc)
  IN IF r.ok THEN AdvancePC(r.val, n, oc) ELSE Outcome("Faulted", r.val)

\* the opcodes of the dispatch table
Opcodes == {0, 169, 165, 173, 170, 232}

\* the match with a halt arm that clears status before returning
Dispatch_HaltClearsStatus(c, opcode, oc) ==
  CASE opcode = 170 -> Outcome("Running", tax(c))
    [] opcode = 169 -> LdaArm(c, "Immediate", 1, oc)
    [] opcode = 165 -> LdaArm(c, "ZeroPage", 1, oc)
    [] opcode = 173 -> LdaArm(c, "Absolute", 2, oc)
    [] opcode = 232 -> Outcome("Running", inx(c))
    [] opcode = 0 -> Outcome("Halted", [c EXCEPT !.status = 0])
    [] OTHER -> Outcome("Faulted", c)

\* the match with an absolute arm that skips one operand byte instead of two
Dispatch_AbsoluteSkipsOne(c, opcode, oc) ==
  CASE opcode = 170 -> Outcome("Running", tax(c))
    [] opcode = 169 -> LdaArm(c, "Immediate", 1, oc)
    [] opcode = 165 -> LdaArm(c, "ZeroPage", 1, oc)
    [] opcode = 173 -> LdaArm(c, "Absolute", 1, oc)
    [] opcode = 232 -> Outcome("Running", inx(c))
    [] opcode = 0 -> Outcome("Halted", c)
    [] OTHER -> Outcome("Faulted", c)

Dispatch(c, opcode, oc) ==
  CASE opcode = 170 -> Outcome("Running", tax(c))
    [] opcode = 169 -> LdaArm(c, "Immediate", 1, oc)
    [] opcode = 165 -> LdaArm(c, "ZeroPage", 1, oc)
    [] opcode = 173 -> LdaArm(c, "Absolute", 2, oc)
    [] opcode = 232 -> Outcome("Running", inx(c))
    [] opcode = 0 -> Outcome("Halted", c)
    [] OTHER -> Outcome("Faulted", c)

RunStep(c, oc) ==
  LET opcode == mem_read(c, c.program_counter) IN
  IF ~opcode.ok THEN Outcome("Faulted", c)
  ELSE LET f == AdvancePC(c, 1, oc) IN
       IF f.outcome = "Faulted" THEN f
       ELSE Dispatch(f.cpu, opcode.val, oc)

(***************************************************************************)
(* CPU::run and CPU::load_and_run as whole calls: the loop is iterated     *)
(* until it returns or panics.                                             *)
(***************************************************************************)
RECURSIVE run(_, _)
run(c, oc) ==
  LET o == RunStep(c, oc)
  IN IF o.outcome = "Running" THEN run(o.cpu, oc) ELSE o

load_and_run(c, p, oc) ==
  LET l == load(c, p, oc) IN
  IF ~l.ok THEN Outcome("Faulted", l.val)
  ELSE LET r == reset(l.val, oc) IN
       IF ~r.ok THEN Outcome("Faulted", r.val) ELSE run(r.val, oc)

(***************************************************************************)
(* The state: the CPU, the position of the process (no run in progress,    *)
(* inside run's loop, run returned, panicked), what the last operation     *)
(* was, and the caller's accesses, runs and loads so far.                   *)
(***************************************************************************)
VARIABLES cpu, state, last, writes, runs, loads

vars == <<cpu, state, last, writes, runs, loads>>

\* the build either checks integer overflow (debug) or wraps (release)
Builds == BOOLEAN

\* the programs handed to load: the programs of the repository's tests,
\* one program per opcode and operand class, and zero-padded programs whose
\* length is at the top of the address space
Samples ==
  {<<>>, <<169, 5, 0>>, <<170, 0>>, <<169, 0, 0>>, <<169, 192, 170, 232, 0>>,
   <<232, 232, 0>>, <<165, 16, 0>>,
   <<169>>, <<170, 232, 170>>, <<232, 170, 255>>, <<255>>,
   <<173, 16, 0>>, <<173, 0, 128>>, <<173, 254, 255>>, <<173, 255, 255>>}
LongLens == {32764, 32766, 32767, 32768, 32769}
Programs ==
  {[head |-> h, len |-> Len(h)] : h \in Samples}
    \cup {[head |-> <<232>>, len |-> n] : n \in LongLens}

\* the assignments the caller makes to the CPU's public fields
Assignments ==
  {<<"register_a", 10>>, <<"register_a", 128>>,
   <<"register_x", 255>>, <<"register_x", 127>>,
   <<"register_y", 85>>, <<"stack_pointer", 253>>, <<"status", 255>>,
   <<"program_counter", 65534>>, <<"program_counter", 65535>>}

\* the cells the caller reads and writes with mem_read and mem_write
Addrs == {16, 65532, 65534, 65535}
Vals == {0, 85, 128}

Init ==
  /\ cpu = new
  /\ state = "Idle"
  /\ last = [op |-> "new", arg |-> 0]
  /\ writes = 0
  /\ runs = 0
  /\ loads = 0

\* the caller holds the CPU: no run is in progress and nothing has panicked
Ready == state \in {"Idle", "Halted"}

After(r) == IF r.ok THEN "Idle" ELSE "Faulted"

\* cpu.load(program)
Load(p) ==
  /\ Ready /\ loads < MaxLoads /\ loads' = loads + 1
  /\ \E oc \in Builds :
       LET r == load(cpu, p, oc)
       IN cpu' = r.val /\ state' = After(r)
  /\ last' = [op |-> "load", arg |-> p]
  /\ UNCHANGED <<writes, runs>>

\* cpu.reset()
Reset ==
  /\ Ready
  /\ \E oc \in Builds :
       LET r == reset(cpu, oc)
       IN cpu' = r.val /\ state' = After(r)
  /\ last' = [op |-> "reset", arg |-> 0]
  /\ UNCHANGED <<writes, runs>>
  /\ UNCHANGED loads

\* cpu.run(): control enters the loop
Run ==
  /\ Ready /\ runs < MaxRuns
  /\ state' = "Running"
  /\ last' = [op |-> "run", arg |-> 0]
  /\ runs' = runs + 1
  /\ UNCHANGED <<cpu, writes>>
  /\ UNCHANGED loads

\* cpu.load_and_run(program): load, reset, and control enters run's loop
LoadAndRun(p) ==
  /\ Ready /\ runs < MaxRuns /\ loads < MaxLoads /\ loads' = loads + 1
  /\ \E oc \in Builds :
       LET l == load(cpu, p, oc)
           r == reset(l.val, oc)
       IN IF ~l.ok THEN cpu' = l.val /\ state' = "Faulted"
          ELSE cpu' = r.val /\ state' = (IF r.ok THEN "Running" ELSE "Faulted")
  /\ last' = [op |-> "load_and_run", arg |-> p]
  /\ runs' = runs + 1
  /\ UNCHANGED writes

\* the opcode run's loop fetches in state c: -1 when the fetch panics
Fetched(c) ==
  LET r == mem_read(c, c.program_counter) IN IF r.ok THEN r.val ELSE -1

\* one iteration of run's loop
Step ==
  /\ state = "Running"
  /\ \E oc \in Builds :
       LET o == RunStep(cpu, oc)
       IN cpu' = o.cpu /\ state' = o.outcome
  /\ last' = [op |-> "step", arg |-> Fetched(cpu)]
  /\ UNCHANGED <<writes, runs>>
  /\ UNCHANGED loads

\* cpu.mem_write(addr, data) by the caller
Write(addr, data) ==
  /\ Ready /\ writes < MaxWrites
  /\ LET r == mem_write(cpu, addr, data)
     IN cpu' = r.val /\ state' = After(r)
  /\ last' = [op |-> "mem_write", arg |-> <<addr, data>>]
  /\ writes' = writes + 1
  /\ UNCHANGED runs
  /\ UNCHANGED loads

\* cpu.mem_read(addr) by the caller
Read(addr) ==
  /\ Ready /\ writes < MaxWrites
  /\ LET r == mem_read(cpu, addr)
     IN state' = After(r) /\ last' = [op |-> "mem_read", arg |-> <<addr, r.val>>]
  /\ writes' = writes + 1
  /\ UNCHANGED <<cpu, runs>>
  /\ UNCHANGED loads

\* the caller assigns a public field of the CPU (cpu.register_a = 10)
Assign(f, v) ==
  /\ Ready /\ writes < MaxWrites
  /\ cpu' = [cpu EXCEPT ![f] = v]
  /\ state' = "Idle"
  /\ last' = [op |-> "assign", arg |-> <<f, v>>]
  /\ writes' = writes + 1
  /\ UNCHANGED runs
  /\ UNCHANGED loads

\* cpu.check_register_z_and_n(v) by the caller (the method is public)
Flags(v) ==
  /\ Ready /\ runs < MaxRuns
  /\ cpu' = check_register_z_and_n(cpu, v)
  /\ state' = "Idle"
  /\ last' = [op |-> "check_register_z_and_n", arg |-> <<cpu.status, v>>]
  /\ runs' = runs + 1
  /\ UNCHANGED <<writes, loads>>

Next ==
  \/ \E p \in Programs : Load(p)
  \/ Reset
  \/ Run
  \/ \E p \in Programs : LoadAndRun(p)
  \/ Step
  \/ \E addr \in Addrs, data \in Vals : Write(addr, data)
  \/ \E addr \in Addrs : Read(addr)
  \/ \E fv \in Assignments : Assign(fv[1], fv[2])

Spec == Init /\ [][Next]_vars

\* the calls that start and prepare a run: programs are loaded and run,
\* and the caller may move program_counter to the top of the memory or
\* preset a register first
RunNext ==
  \/ \E p \in Programs : LoadAndRun(p)
  \/ Reset
  \/ Run
  \/ Step
  \/ \E fv \in {a \in Assignments : a[1] \in {"program_counter", "register_x"}} :
       Assign(fv[1], fv[2])

\* run's loop is sequential code: once entered it keeps iterating
FairSpec == Init /\ [][RunNext]_vars /\ WF_vars(Step)

\* the same calls, with no assumption on scheduling
RunSpec == Init /\ [][RunNext]_vars

\* the flag unit alone: the caller sets status, then calls it with any byte
StatusVals == {0, 2, 128, 130, 125, 255, 85, 170}

FlagNext ==
  \/ \E s \in StatusVals : Assign("status", s)
  \/ \E v \in Byte : Flags(v)

FlagSpec == Init /\ [][FlagNext]_vars

\* a caller that never writes status: it loads, resets and runs programs,
\* writes memory and assigns the other public fields
CleanNext ==
  \/ \E p \in Programs : Load(p)
  \/ Reset
  \/ Run
  \/ \E p \in Programs : LoadAndRun(p)
  \/ Step
  \/ \E addr \in Addrs, data \in Vals : Write(addr, data)
  \/ \E fv \in {a \in Assignments : a[1] # "status"} : Assign(fv[1], fv[2])

CleanSpec == Init /\ [][CleanNext]_vars

\* the 16-bit accessors alone: the caller writes and reads words, at the
\* bottom, in the middle and at the top of the address space
Addrs16 == {0, 16, 255, 256, 32768, 65532, 65533, 65534, 65535}
Vals16 == {0, 1, 255, 256, 4660, 32768, 43981, 52275, 65280, 65534, 65535}

\* cpu.mem_write_u16(pos, data) by the caller
Write16(pos, data) ==
  /\ Ready /\ writes < MaxWrites
  /\ \E oc \in Builds :
       LET r == mem_write_u16(cpu, pos, data, oc)
       IN cpu' = r.val /\ state' = After(r)
  /\ last' = [op |-> "mem_write_u16", arg |-> <<pos, data>>]
  /\ writes' = writes + 1
  /\ UNCHANGED <<runs, loads>>

\* cpu.mem_read_u16(pos) by the caller
Read16(pos) ==
  /\ Ready /\ writes < MaxWrites
  /\ \E oc \in Builds :
       LET r == mem_read_u16(cpu, pos, oc)
       IN /\ state' = After(r)
          /\ last' = [op |-> "mem_read_u16", arg |-> <<pos, r.val>>]
  /\ writes' = writes + 1
  /\ UNCHANGED <<cpu, runs, loads>>

WordNext ==
  \/ \E pos \in Addrs16, data \in Vals16 : Write16(pos, data)
  \/ \E pos \in Addrs16 : Read16(pos)

WordSpec == Init /\ [][WordNext]_vars

\* the resolver alone.  The zero page and the two cells above it hold
\* either bytes that tell the cells apart or bytes at the top of the byte
\* range; the operand byte is at program_counter, the index registers hold
\* the ends and the middle of their range
Tables ==
  {[a \in 0 .. 257 |-> (a % 251) + 1], [a \in 0 .. 257 |-> 255 - (a % 3)]}
Indexes == {0, 1, 128, 255}

ResolveInit ==
  /\ \E p \in Byte, x \in Indexes, y \in Indexes, t \in Tables :
       cpu = [new EXCEPT !.memory = Put(t, Base, p),
                         !.register_x = x,
                         !.register_y = y,
                         !.program_counter = Base]
  /\ state = "Idle"
  /\ last = [op |-> "new", arg |-> 0]
  /\ writes = 0
  /\ runs = 0
  /\ loads = 0

\* cpu.get_operand_address(&mode) by a handler
Resolve(mode) ==
  /\ Ready
  /\ \E oc \in Builds :
       LET r == get_operand_address(cpu, mode, oc)
       IN /\ state' = After(r)
          /\ last' = [op |-> "get_operand_address", arg |-> <<mode, r.val>>]
  /\ UNCHANGED <<cpu, writes, runs, loads>>

ResolveNext == \E mode \in AddressingMode : Resolve(mode)

ResolveSpec == ResolveInit /\ [][ResolveNext]_vars

\* the five-byte program of the test test_5_ops_working_together, with
\* every byte as the immediate operand
ChainPrograms == {[head |-> <<169, v, 170, 232, 0>>, len |-> 5] : v \in Byte}

ChainNext ==
  \/ \E p \in ChainPrograms : LoadAndRun(p)
  \/ Step

ChainSpec == Init /\ [][ChainNext]_vars

(***************************************************************************)
(* Vocabulary of the claims.                                               *)
(***************************************************************************)
Zero(c) == Bit(c.status, 1) = 1
Negative(c) == Bit(c.status, 7) = 1

\* Zero and Negative of c describe the byte v
FlagsOf(c, v) == (Zero(c) <=> v = 0) /\ (Negative(c) <=> v >= 128)

Terminal == state \in {"Halted", "Faulted"}

\* the address a load-accumulator opcode at c.program_counter targets, over
\* the full 16-bit address space
LdaTarget(c) ==
  LET pc == c.program_counter
      opcode == Cell(c.memory, pc)
      b1 == Cell(c.memory, (pc + 1) % U16)
      b2 == Cell(c.memory, (pc + 2) % U16)
  IN CASE opcode = 169 -> (pc + 1) % U16
       [] opcode = 165 -> b1
       [] OTHER -> b1 + 256 * b2

\* every byte of program p is in memory m from Base on, but for the cells
\* of except.  (A cell outside DOMAIN m holds 0 and a byte of p past its
\* head is 0, so only the cells of DOMAIN m and of the head are compared.)
InPlace(m, p, except) ==
  \A a \in (DOMAIN m) \cup {Base + (i - 1) : i \in 1 .. Len(p.head)} :
    (Base <= a /\ a < Base + p.len /\ a \notin except)
      => Cell(m, a) = ProgByte(p, a - Base)

\* the number of operand bytes that follow an opcode of the dispatch table
OperandBytes(opcode) ==
  CASE opcode \in {170, 232, 0} -> 0
    [] opcode \in {169, 165} -> 1
    [] OTHER -> 2

\* CPUs with the memory of c and other registers: all zero, and all ones
Twins(c) ==
  {[new EXCEPT !.memory = c.memory],
   [register_a |-> 255, register_x |-> 255, register_y |-> 255,
    status |-> 255, memory |-> c.memory, program_counter |-> 65535,
    stack_pointer |-> 255]}

\* what the claim compares of the end of a call: the outcome and the
\* fields other than register_y and stack_pointer
Observed(o) ==
  [outcome |-> o.outcome, register_a |-> o.cpu.register_a,
   register_x |-> o.cpu.register_x, status |-> o.cpu.status,
   program_counter |-> o.cpu.program_counter, memory |-> o.cpu.memory]

\* the reset vector of m, little-endian
VectorOf(m) == Cell(m, ResetVector) + 256 * Cell(m, ResetVector + 1)

(***************************************************************************)
(* C1.  Every step of run's loop fetches the opcode at program_counter and *)
(* adds 1 to program_counter; the loop returns (Halted) iff the opcode is  *)
(* 0x00, faults iff the opcode is not in the dispatch table and keeps      *)
(* running otherwise; after Halted or Faulted no instruction is executed.  *)
(* The code also faults on an opcode of the table, when an operand or its  *)
(* target lies at 0xFFFF, past the end of the memory array.                *)
(***************************************************************************)
C1_DispatchOutcome ==
  [][/\ state = "Running" =>
          /\ Fetched(cpu) \in Byte
          /\ (state' = "Halted") <=> (Fetched(cpu) = 0)
          /\ (state' = "Faulted") <=> (Fetched(cpu) \notin Opcodes)
          /\ (state' = "Running") <=> (Fetched(cpu) \in Opcodes \ {0})
          /\ (state' = "Halted") =>
               cpu'.program_counter = cpu.program_counter + 1
     /\ Terminal => last'.op # "step"]_vars

(***************************************************************************)
(* C2.  run terminates: once control is in the loop it reaches Halted or   *)
(* Faulted.                                                                *)
(***************************************************************************)
C2_RunTerminates == (state = "Running") ~> Terminal

\* a run that ended by running off the top of the memory array
C2_Witness ==
  state = "Faulted" /\ last.op = "step" /\ last.arg = -1
    /\ cpu.program_counter = MemLen

(***************************************************************************)
(* C3.  A load-accumulator opcode (0xA9, 0xA5, 0xAD) whose operand targets *)
(* address a, any a in 0 .. 0xFFFF, does not fault and leaves in           *)
(* register_a the byte b that memory holds at a, with Zero iff b = 0 and   *)
(* Negative iff b >= 0x80.  The code faults for a = 0xFFFF.                *)
(***************************************************************************)
C3_LoadAccumulator ==
  [][(state = "Running" /\ Fetched(cpu) \in {169, 165, 173}) =>
       LET b == Cell(cpu.memory, LdaTarget(cpu))
       IN /\ state' # "Faulted"
          /\ cpu'.register_a = b
          /\ FlagsOf(cpu', b)]_vars

(***************************************************************************)
(* C4.  check_register_z_and_n(v) called with status s leaves a status     *)
(* whose bit 1 is set iff v = 0, whose bit 7 is set iff v >= 0x80 and      *)
(* whose other six bits are those of s: the result is the six other bits   *)
(* of s plus the two flags of v, whatever bits 1 and 7 of s were.          *)
(***************************************************************************)
C4_FlagUnit ==
  last.op = "check_register_z_and_n" =>
    LET s == last.arg[1]
        v == last.arg[2]
    IN /\ Zero(cpu) <=> v = 0
       /\ Negative(cpu) <=> v >= 128
       /\ \A k \in {0, 2, 3, 4, 5, 6} : Bit(cpu.status, k) = Bit(s, k)
       /\ cpu.status = (s - 2 * Bit(s, 1) - 128 * Bit(s, 7))
                         + (IF v = 0 THEN 2 ELSE 0) + (IF v >= 128 THEN 128 ELSE 0)

\* status 0xFF and v = 0: Zero stays set, Negative is cleared, the rest kept
C4_Witness ==
  last.op = "check_register_z_and_n" /\ last.arg = <<255, 0>> /\ cpu.status = 127

(***************************************************************************)
(* C5.  Memory is total over the 16-bit address space: a read or a write   *)
(* of any address in 0 .. 0xFFFF never fails, a read returns the byte last *)
(* written there (0 if none), and a write changes that cell.  The code's   *)
(* array has 0xFFFF cells, so address 0xFFFF panics.                       *)
(***************************************************************************)
C5_MemoryTotal ==
  /\ last.op = "mem_read" =>
       state # "Faulted" /\ last.arg[2] = Cell(cpu.memory, last.arg[1])
  /\ last.op = "mem_write" =>
       state # "Faulted" /\ Cell(cpu.memory, last.arg[1]) = last.arg[2]

(***************************************************************************)
(* C6.  After load(p) returns, memory[0x8000 + i] = p[i] for every         *)
(* i < len(p), memory[0xFFFC] = 0x00 and memory[0xFFFD] = 0x80, so that a  *)
(* following reset sets program_counter to 0x8000.                         *)
(***************************************************************************)
\* the claim as stated: fails for a program long enough to reach the reset
\* vector, whose bytes there the vector write replaces
C6_LoadPlacesWholeProgram ==
  (last.op = "load" /\ state # "Faulted") =>
    /\ InPlace(cpu.memory, last.arg, {})
    /\ VectorOf(cpu.memory) = Base

\* the claim but for the two cells of the reset vector
C6_LoadPlacesProgram ==
  (last.op = "load" /\ state # "Faulted") =>
    /\ InPlace(cpu.memory, last.arg, {ResetVector, ResetVector + 1})
    /\ Cell(cpu.memory, ResetVector) = 0
    /\ Cell(cpu.memory, ResetVector + 1) = 128
    /\ \A oc \in Builds :
         reset(cpu, oc).ok /\ reset(cpu, oc).val.program_counter = Base

\* a loaded program that covers the reset vector
C6_Witness ==
  last.op = "load" /\ state = "Idle" /\ last.arg.len = 32767
    /\ Cell(cpu.memory, Base) = 232 /\ VectorOf(cpu.memory) = Base

(***************************************************************************)
(* C7.  load fails exactly when the program is longer than 0x8000 bytes,   *)
(* and a failed load changes neither memory nor registers.  The code's     *)
(* array ends at 0xFFFE, so a program of 0x8000 bytes is rejected too.     *)
(***************************************************************************)
C7_LoadRange ==
  [][last'.op = "load" =>
       /\ (state' = "Faulted") <=> (last'.arg.len > U16 - Base)
       /\ (state' = "Faulted") => cpu' = cpu]_vars

C9_IncrementX ==
  [][/\ (state = "Running" /\ Fetched(cpu) = 232) =>
          /\ state' = "Running"
          /\ cpu'.register_x = (cpu.register_x + 1) % 256
          /\ FlagsOf(cpu', cpu'.register_x)
          /\ cpu.register_x = 255 =>
               cpu'.register_x = 0 /\ Zero(cpu') /\ ~Negative(cpu')
          /\ cpu.register_x = 0 =>
               cpu'.register_x = 1 /\ ~Zero(cpu') /\ ~Negative(cpu')
     /\ last'.op = "run" => cpu' = cpu]_vars

\* the caller set register_x to 0xFF; the second Increment-X has run
C9_Witness ==
  last.op = "step" /\ last.arg = 232 /\ cpu.register_x = 1
    /\ cpu.program_counter = Base + 2 /\ ~Zero(cpu) /\ ~Negative(cpu)

(***************************************************************************)
(* C10.  Transfer-Accumulator-to-X (0xAA) leaves register_a in register_x, *)
(* register_a as it was, Zero iff it is 0 and Negative iff it is >= 0x80,  *)
(* and program_counter one past the opcode.  Entering run changes no       *)
(* register, so the register_a the caller set before run is transferred.   *)
(***************************************************************************)
C10_TransferAX ==
  [][/\ (state = "Running" /\ Fetched(cpu) = 170) =>
          /\ state' = "Running"
          /\ cpu'.register_x = cpu.register_a
          /\ cpu'.register_a = cpu.register_a
          /\ FlagsOf(cpu', cpu.register_a)
          /\ cpu'.program_counter = cpu.program_counter + 1
     /\ last'.op = "run" => cpu' = cpu]_vars

\* the caller set register_a to 10 after reset; the transfer has run
C10_Witness ==
  last.op = "step" /\ last.arg = 170 /\ cpu.register_x = 10
    /\ cpu.register_a = 10 /\ cpu.program_counter = Base + 1

(***************************************************************************)
(* C11.  load_and_run of [0xA9, v, 0xAA, 0xE8, 0x00], for every byte v,    *)
(* does not fault, runs through the four opcodes in order and is Halted    *)
(* only with register_a = v, register_x = (v + 1) mod 256, Zero iff that   *)
(* register_x is 0, Negative iff it is >= 0x80, and program_counter =      *)
(* 0x8005.                                                                 *)
(***************************************************************************)
C11_Chain ==
  LET v == Cell(cpu.memory, Base + 1)
  IN /\ state # "Faulted"
     /\ state = "Running" =>
          cpu.program_counter \in {Base, Base + 2, Base + 3, Base + 4}
     /\ state = "Halted" =>
          /\ cpu.register_a = v
          /\ cpu.register_x = (v + 1) % 256
          /\ FlagsOf(cpu, cpu.register_x)
          /\ cpu.program_counter = Base + 5

\* the run with v = 0xFF has halted: register_x wrapped to 0, Zero is set
C11_Witness ==
  state = "Halted" /\ loads = 1 /\ Cell(cpu.memory, Base + 1) = 255
    /\ cpu.register_a = 255 /\ cpu.register_x = 0 /\ cpu.status = 2
    /\ cpu.program_counter = Base + 5

(***************************************************************************)
(* C12.  For every 16-bit address and value, mem_write_u16 does not fault  *)
(* and leaves the low byte of the value at the address and the high byte   *)
(* at the address + 1 modulo 65536; mem_read_u16 does not fault and        *)
(* returns the byte at the address + 256 times the byte at the address + 1 *)
(* modulo 65536, so a read after a write returns the value written.  The   *)
(* code faults at the addresses 0xFFFE and 0xFFFF.                         *)
(***************************************************************************)
C12_Word ==
  LET pos == last.arg[1]
      next == (pos + 1) % U16
  IN /\ last.op = "mem_write_u16" =>
          /\ state # "Faulted"
          /\ Cell(cpu.memory, pos) = last.arg[2] % 256
          /\ Cell(cpu.memory, next) = last.arg[2] \div 256
     /\ last.op = "mem_read_u16" =>
          /\ state # "Faulted"
          /\ last.arg[2] = Cell(cpu.memory, pos) + 256 * Cell(cpu.memory, next)

(***************************************************************************)
(* C14.  A step that executes an opcode of the dispatch table other than   *)
(* 0x00 at address pc leaves program_counter = pc + 1 + N, with N = 0 for  *)
(* 0xAA and 0xE8, 1 for 0xA9 and 0xA5, 2 for 0xAD.  The handlers do not    *)
(* change program_counter and the operand is resolved at pc + 1 (the       *)
(* immediate operand is the byte at pc + 1), so program_counter grows with *)
(* every step that completes and never wraps past 0xFFFF.                  *)
(***************************************************************************)
C14_Advance ==
  [][state = "Running" =>
       LET pc == cpu.program_counter
       IN /\ state' = "Running" =>
               /\ Fetched(cpu) \in Opcodes \ {0}
               /\ cpu'.program_counter = pc + 1 + OperandBytes(Fetched(cpu))
               /\ Fetched(cpu) = 169 => cpu'.register_a = Cell(cpu.memory, pc + 1)
          /\ state' # "Faulted" => cpu'.program_counter > pc
          /\ cpu'.program_counter >= pc /\ cpu'.program_counter < U16
          /\ tax(cpu).program_counter = pc /\ inx(cpu).program_counter = pc
          /\ \A mode \in {"Immediate", "ZeroPage", "Absolute"}, oc \in Builds :
               lda(cpu, mode, oc).val.program_counter = pc]_vars

\* an absolute load at 0x8000 has completed: program_counter is 0x8003
C14_Witness ==
  last.op = "step" /\ last.arg = 173 /\ state = "Running"
    /\ cpu.program_counter = Base + 3

(***************************************************************************)
(* C15.  A step that fetches 0x00 at address h returns from run with       *)
(* program_counter = h + 1 and with register_a, register_x, register_y,    *)
(* status, stack_pointer and memory as they were before the fetch.         *)
(***************************************************************************)
C15_Halt ==
  [][(state = "Running" /\ Fetched(cpu) = 0) =>
       /\ state' = "Halted"
       /\ cpu'.program_counter = cpu.program_counter + 1
       /\ cpu' = [cpu EXCEPT !.program_counter = cpu.program_counter + 1]]_vars

\* the run of [0xA9, 0xC0, 0xAA, 0xE8, 0x00] has returned: the registers
\* and the Negative flag the program left are still there
C15_Witness ==
  state = "Halted" /\ last.op = "step" /\ last.arg = 0
    /\ cpu.register_a = 192 /\ cpu.register_x = 193 /\ cpu.status = 128
    /\ cpu.program_counter = Base + 5

(***************************************************************************)
(* C16.  In mode Indirect_X, with operand byte p at program_counter and    *)
(* any register_x, the resolver does not fault and returns                 *)
(* memory[q] + 256 * memory[(q + 1) mod 256] with q = (p + register_x) mod *)
(* 256: pointer and successor stay in the zero page, and for q = 0xFF the  *)
(* high byte comes from address 0x0000.                                    *)
(***************************************************************************)
C16_IndirectX ==
  (last.op = "get_operand_address" /\ last.arg[1] = "Indirect_X") =>
    LET p == Cell(cpu.memory, cpu.program_counter)
        q == (p + cpu.register_x) % 256
    IN /\ state # "Faulted"
       /\ last.arg[2] = Cell(cpu.memory, q) + 256 * Cell(cpu.memory, (q + 1) % 256)
       /\ q = 255 => last.arg[2] = Cell(cpu.memory, 255) + 256 * Cell(cpu.memory, 0)

\* operand 0xFE and register_x = 1: the pointer is 0xFF and the high byte
\* is the one at 0x0000, not the one at 0x0100
C16_Witness ==
  /\ last.op = "get_operand_address" /\ last.arg[1] = "Indirect_X"
  /\ Cell(cpu.memory, cpu.program_counter) = 254 /\ cpu.register_x = 1
  /\ Cell(cpu.memory, 255) = 5 /\ Cell(cpu.memory, 0) = 1
  /\ Cell(cpu.memory, 256) = 6
  /\ last.arg[2] = 5 + 256 * 1

(***************************************************************************)
(* C17.  In mode Indirect_Y, with operand byte p at program_counter and    *)
(* any register_y, the resolver does not fault and returns                 *)
(* (memory[p] + 256 * memory[(p + 1) mod 256] + register_y) mod 65536: the *)
(* pointer pair stays in the zero page and the sum wraps at 16 bits.       *)
(***************************************************************************)
C17_IndirectY ==
  (last.op = "get_operand_address" /\ last.arg[1] = "Indirect_Y") =>
    LET p == Cell(cpu.memory, cpu.program_counter)
        base == Cell(cpu.memory, p) + 256 * Cell(cpu.memory, (p + 1) % 256)
    IN /\ state # "Faulted"
       /\ last.arg[2] = (base + cpu.register_y) % U16

\* operand 0xFF, the pair at 0xFF and 0x00 holds 0xFFFF, register_y = 1:
\* the sum wraps to 0
C17_Witness ==
  /\ last.op = "get_operand_address" /\ last.arg[1] = "Indirect_Y"
  /\ Cell(cpu.memory, cpu.program_counter) = 255 /\ cpu.register_y = 1
  /\ Cell(cpu.memory, 255) = 255 /\ Cell(cpu.memory, 0) = 255
  /\ Cell(cpu.memory, 256) = 254
  /\ last.arg[2] = 0

C19_Status ==
  /\ cpu.status \in {0, 2, 128}
  /\ ~(Zero(cpu) /\ Negative(cpu))
  /\ (last.op = "step" /\ state = "Running" /\ last.arg \in {169, 165, 173}) =>
       FlagsOf(cpu, cpu.register_a)
  /\ (last.op = "step" /\ state = "Running" /\ last.arg \in {170, 232}) =>
       FlagsOf(cpu, cpu.register_x)

\* the caller set register_x to 0x7F after reset; Increment-X has made it
\* 0x80 and status is 0x80
C19_Witness ==
  last.op = "step" /\ last.arg = 232 /\ state = "Running"
    /\ cpu.register_x = 128 /\ cpu.status = 128

====
